---- MODULE Spec2Model ----
(***************************************************************************)
(* yuzu-updater (src/src/main.rs): one run of `main`.                      *)
(*                                                                         *)
(* The run fetches the latest release, selects the AppImage asset, parses  *)
(* a version token out of its name, walks the download directory for the   *)
(* most recently created local AppImage, parses its token, compares both   *)
(* and, when they differ, spawns one task that streams the asset body to   *)
(* <download_dir>/<asset name>.                                            *)
(*                                                                         *)
(* Strings are sequences of one-character strings, so that split,          *)
(* starts_with, ends_with and replace are computed as the code computes    *)
(* them.  Option<T> is a sequence of length 0 (None) or 1 (Some).          *)
(***************************************************************************)
EXTENDS Integers, Sequences, FiniteSets, TLC

VARIABLES
    pc,                \* position of main: fetch, select, extract_remote, scan,
                       \* pick_latest, extract_local, reconcile, spawn, await, done
    exit_code,         \* Option: the process' exit status once pc = "done"
    abort,             \* which statement ended the run early ("none" otherwise)
    assets,            \* yuzu_release_data.assets: the asset names, in list order
    chosen_asset,      \* Option<&Asset>: 0 is None, i > 0 is Some(&assets[i])
    latest_commit,     \* Option: remote version token
    walk,              \* the entries WalkDir has yielded so far, in traversal order
    matching_files,    \* Vec<(OsString, SystemTime)>
    latest_file,       \* Option<OsString>
    latest_local_commit, \* Option: local version token
    compared,          \* the comparison of line 213 has been evaluated
    disk,              \* files directly under download_dir: name -> bytes
    spawned,           \* number of tokio::spawn calls made
    tpc,               \* position of download_task: idle, send, create, stream,
                       \* done, panicked
    task_fail,         \* which unwrap of the task panicked ("none" otherwise)
    download_requests, \* number of GETs sent for the asset body
    created_files,     \* names of the files the run has created
    chunks             \* the chunks the body stream has yielded, in receipt order

vars == <<pc, exit_code, abort, assets, chosen_asset, latest_commit, walk,
          matching_files, latest_file, latest_local_commit, compared, disk,
          spawned, tpc, task_fail, download_requests, created_files, chunks>>

-----------------------------------------------------------------------------
(* Bounds of the model *)

MaxAssets == 2

MaxEntries == 2

MaxChunks == 2

MaxFrags == 6

-----------------------------------------------------------------------------
(* Exit statuses *)

\* `return Ok(())` / `Ok(())` from main
OkExit == 0

\* std::process::exit(1)
ExitNoAsset == 1

\* main returning Err(_): Termination for Result reports ExitCode::FAILURE
ErrExit == 1

\* a panic on the main thread (index out of bounds, unwrap on None)
PanicExit == 101

None == <<>>

Some(x) == <<x>>

-----------------------------------------------------------------------------
(* String literals of the program *)

\* ".AppImage"
Suffix == <<".", "A", "p", "p", "I", "m", "a", "g", "e">>

\* "yuzu"
Prefix == <<"y", "u", "z", "u">>

\* "-"
Hyphen == "-"

-----------------------------------------------------------------------------
(* str methods used by the program *)

\* str::ends_with
EndsWith(s, suf) ==
    /\ Len(s) >= Len(suf)
    /\ SubSeq(s, Len(s) - Len(suf) + 1, Len(s)) = suf

\* str::starts_with
StartsWith(s, pre) ==
    /\ Len(s) >= Len(pre)
    /\ SubSeq(s, 1, Len(pre)) = pre

\* pat occurs in s at position i
OccursAt(s, pat, i) ==
    /\ i + Len(pat) - 1 <= Len(s)
    /\ SubSeq(s, i, i + Len(pat) - 1) = pat

RECURSIVE SplitFrom(_, _, _, _)
SplitFrom(s, d, i, cur) ==
    IF i > Len(s) THEN <<cur>>
    ELSE IF s[i] = d THEN <<cur>> \o SplitFrom(s, d, i + 1, <<>>)
    ELSE SplitFrom(s, d, i + 1, Append(cur, s[i]))

\* str::split(d).collect::<Vec<&str>>(): k delimiters give k + 1 fields
Split(s, d) == SplitFrom(s, d, 1, <<>>)

RECURSIVE ReplaceFrom(_, _, _, _)
ReplaceFrom(s, from, to, i) ==
    IF i > Len(s) THEN <<>>
    ELSE IF OccursAt(s, from, i) THEN to \o ReplaceFrom(s, from, to, i + Len(from))
    ELSE <<s[i]>> \o ReplaceFrom(s, from, to, i + 1)

\* str::replace(from, to): every non-overlapping occurrence, left to right
Replace(s, from, to) == ReplaceFrom(s, from, to, 1)

-----------------------------------------------------------------------------
(* Asset selection, lines 155-161 *)

RECURSIVE ChooseFirstFrom(_, _)
ChooseFirstFrom(as, i) ==
    IF i > Len(as) THEN 0
    ELSE IF EndsWith(as[i], Suffix) THEN i
    ELSE ChooseFirstFrom(as, i + 1)

\* a loop that stops at the first match
ChooseFirst(as) == ChooseFirstFrom(as, 1)

RECURSIVE ChooseFrom(_, _, _)
ChooseFrom(as, i, chosen) ==
    IF i > Len(as) THEN chosen
    ELSE ChooseFrom(as, i + 1, IF EndsWith(as[i], Suffix) THEN i ELSE chosen)

\* for asset in assets.iter() { if ends_with { chosen_asset = Some(asset) } }
ChooseAsset(as) == ChooseFrom(as, 1, 0)

-----------------------------------------------------------------------------
(* Version extraction, lines 169-171 and 207-209 *)

\* the outcome of indexing file_args[3] out of range
IndexPanic == <<"panic">>

Token(v) == <<"token", v>>

\* file_args.get(3).unwrap_or(&"") in place of file_args[3]
ExtractVersionLenient(name) ==
    LET file_args == Split(name, Hyphen)
    IN  IF Len(file_args) < 4 THEN Token(<<>>)
        ELSE Token(Replace(file_args[4], Suffix, <<>>))

\* name.split("-").collect(); file_args[3].replace(".AppImage", "")
ExtractVersion(name) ==
    LET file_args == Split(name, Hyphen)
    IN  IF Len(file_args) < 4 THEN IndexPanic
        ELSE Token(Replace(file_args[4], Suffix, <<>>))

-----------------------------------------------------------------------------
(* Local scan, lines 188 and 196-198 *)

\* file_name.starts_with("yuzu") && file_name.ends_with(".AppImage")
Matches(file_name) == StartsWith(file_name, Prefix) /\ EndsWith(file_name, Suffix)

RECURSIVE MaxByFirstFrom(_, _, _)
MaxByFirstFrom(files, i, best) ==
    IF i > Len(files) THEN best
    ELSE MaxByFirstFrom(files, i + 1,
                        IF files[i][2] > files[best][2] THEN i ELSE best)

\* a maximum that keeps the first of several equally maximal elements
MaxByFirst(files) == IF files = <<>> THEN 0 ELSE MaxByFirstFrom(files, 2, 1)

RECURSIVE MaxByFrom(_, _, _)
MaxByFrom(files, i, best) ==
    IF i > Len(files) THEN best
    ELSE MaxByFrom(files, i + 1,
                   IF files[best][2] > files[i][2] THEN best ELSE i)

\* Iterator::max_by(|(_, t1), (_, t2)| t1.cmp(t2)): the fold keeps the
\* accumulator only when it compares Greater; 0 stands for None
MaxBy(files) == IF files = <<>> THEN 0 ELSE MaxByFrom(files, 2, 1)

-----------------------------------------------------------------------------
(* Download task helpers, lines 236-247 *)

\* a write that puts the chunk in front of what the file holds
WriteAllFront(content, item) == item \o content

\* new_yuzu_file.write_all(&item)
WriteAll(content, item) == content \o item

\* `let _ = download_task.await;`
AwaitIgnored(t) == OkExit

\* download_task.await?; Ok(()): a panicked task is a JoinError
AwaitResult(t) == IF t = "panicked" THEN ErrExit ELSE OkExit

\* the JoinHandle resolves once the task has returned or panicked
JoinReady(t) == t \in {"done", "panicked"}

RECURSIVE Flatten(_)
Flatten(cs) == IF cs = <<>> THEN <<>> ELSE Head(cs) \o Flatten(Tail(cs))

-----------------------------------------------------------------------------
(* Inputs *)

\* "yuzu-a-b-x.AppImage"
NameX == Prefix \o <<"-", "a", "-", "b", "-", "x">> \o Suffix

\* "yuzu-a-b-y.AppImage"
NameY == Prefix \o <<"-", "a", "-", "b", "-", "y">> \o Suffix

\* "yuzu.AppImage"
NameShort == Prefix \o Suffix

\* "yuzu-a-b-x.zip"
NameZip == Prefix \o <<"-", "a", "-", "b", "-", "x", ".", "z", "i", "p">>

\* "yuzu-a-x.AppImage"
NameThree == Prefix \o <<"-", "a", "-", "x">> \o Suffix

Names == {NameX, NameY, NameShort, NameThree, NameZip}

SeqsUpTo(S, n) == UNION {[1..k -> S] : k \in 0..n}

AssetLists == SeqsUpTo(Names, MaxAssets)

Times == {1, 2}

ChunkValues == {<<0>>, <<1, 0>>}

OldContent == <<1, 1, 1>>

ErrEntry == [err |-> TRUE, name |-> <<>>, created |-> 0]

FileEntry(n, t) == [err |-> FALSE, name |-> n, created |-> t]

Fragments == {Prefix, <<Hyphen>>, <<"x">>, Suffix}

RECURSIVE Concat(_)
Concat(fs) == IF fs = <<>> THEN <<>> ELSE Head(fs) \o Concat(Tail(fs))

\* file names made of up to MaxFrags fragments, the last one ".AppImage"
FragNames == {Concat(fs) \o Suffix : fs \in SeqsUpTo(Fragments, MaxFrags - 1)}

-----------------------------------------------------------------------------
(* Initial state: main is about to send the release request *)

Init ==
    /\ pc = "fetch"
    /\ exit_code = None
    /\ abort = "none"
    /\ assets = <<>>
    /\ chosen_asset = 0
    /\ latest_commit = None
    /\ walk = <<>>
    /\ matching_files = <<>>
    /\ latest_file = None
    /\ latest_local_commit = None
    /\ compared = FALSE
    /\ disk = <<>>
    /\ spawned = 0
    /\ tpc = "idle"
    /\ task_fail = "none"
    /\ download_requests = 0
    /\ created_files = {}
    /\ chunks = <<>>

\* the process ends with status `code` because of `why`
Exit(code, why) ==
    /\ pc' = "done"
    /\ exit_code' = Some(code)
    /\ abort' = why

-----------------------------------------------------------------------------
(* main *)

\* lines 144-153: client.get(..).send().await?; res.json::<Release>().await?
FetchRelease ==
    /\ pc = "fetch"
    /\ \/ /\ \E why \in {"transport", "parse"} : Exit(ErrExit, why)
          /\ UNCHANGED assets
       \/ /\ \E as \in AssetLists : assets' = as
          /\ pc' = "select"
          /\ UNCHANGED <<exit_code, abort>>
    /\ UNCHANGED <<chosen_asset, latest_commit, walk, matching_files, latest_file,
                   latest_local_commit, compared, disk, spawned, tpc, task_fail,
                   download_requests, created_files, chunks>>

\* lines 155-161 without the exit of lines 163-165
SelectAssetNoExit ==
    /\ pc = "select"
    /\ chosen_asset' = ChooseAsset(assets)
    /\ IF chosen_asset' = 0
       THEN Exit(PanicExit, "unwrap_asset")
       ELSE pc' = "extract_remote" /\ UNCHANGED <<exit_code, abort>>
    /\ UNCHANGED <<assets, latest_commit, walk, matching_files, latest_file,
                   latest_local_commit, compared, disk, spawned, tpc, task_fail,
                   download_requests, created_files, chunks>>

\* lines 155-167: the selection loop, then exit(1) when nothing was chosen
SelectAsset ==
    /\ pc = "select"
    /\ chosen_asset' = ChooseAsset(assets)
    /\ IF chosen_asset' = 0
       THEN Exit(ExitNoAsset, "no_asset")
       ELSE pc' = "extract_remote" /\ UNCHANGED <<exit_code, abort>>
    /\ UNCHANGED <<assets, latest_commit, walk, matching_files, latest_file,
                   latest_local_commit, compared, disk, spawned, tpc, task_fail,
                   download_requests, created_files, chunks>>

\* lines 169-173
ExtractRemote ==
    /\ pc = "extract_remote"
    /\ LET v == ExtractVersion(assets[chosen_asset])
       IN  \/ /\ v = IndexPanic
              /\ Exit(PanicExit, "malformed_remote")
              /\ UNCHANGED latest_commit
           \/ /\ v # IndexPanic
              /\ latest_commit' = Some(v[2])
              /\ pc' = "scan"
              /\ UNCHANGED <<exit_code, abort>>
    /\ UNCHANGED <<assets, chosen_asset, walk, matching_files, latest_file,
                   latest_local_commit, compared, disk, spawned, tpc, task_fail,
                   download_requests, created_files, chunks>>

\* a file the walk has seen exists; it is taken to sit directly under download_dir
Seen(d, n) == IF n \in DOMAIN d THEN d ELSE d @@ (n :> OldContent)

\* lines 179-192: one iteration of the WalkDir loop
ScanStep ==
    /\ pc = "scan"
    /\ Len(walk) < MaxEntries
    /\ \/ \* entry.is_err(): continue
          /\ walk' = Append(walk, ErrEntry)
          /\ UNCHANGED <<pc, exit_code, abort, matching_files, disk>>
       \/ \* file_name().to_str().unwrap() on a name that is not UTF-8
          /\ Exit(PanicExit, "non_utf8")
          /\ UNCHANGED <<walk, matching_files, disk>>
       \/ \* an entry that does not match: its metadata is never read
          \E n \in {m \in Names : ~Matches(m)} :
             /\ walk' = Append(walk, FileEntry(n, 0))
             /\ disk' = Seen(disk, n)
             /\ UNCHANGED <<pc, exit_code, abort, matching_files>>
       \/ \* a matching entry, created at t
          \E n \in {m \in Names : Matches(m)}, t \in Times :
             /\ walk' = Append(walk, FileEntry(n, t))
             /\ disk' = Seen(disk, n)
             /\ matching_files' = Append(matching_files, <<n, t>>)
             /\ UNCHANGED <<pc, exit_code, abort>>
       \/ \* entry.metadata()?.created()? fails on a matching entry
          \E n \in {m \in Names : Matches(m)} :
             /\ disk' = Seen(disk, n)
             /\ Exit(ErrExit, "metadata")
             /\ UNCHANGED <<walk, matching_files>>
    /\ UNCHANGED <<assets, chosen_asset, latest_commit, latest_file,
                   latest_local_commit, compared, spawned, tpc, task_fail,
                   download_requests, created_files, chunks>>

\* the WalkDir iterator is exhausted
ScanEnd ==
    /\ pc = "scan"
    /\ pc' = "pick_latest"
    /\ UNCHANGED <<exit_code, abort, assets, chosen_asset, latest_commit, walk,
                   matching_files, latest_file, latest_local_commit, compared,
                   disk, spawned, tpc, task_fail, download_requests,
                   created_files, chunks>>

\* lines 194-205: max_by, then latest_file.unwrap()
PickLatest ==
    /\ pc = "pick_latest"
    /\ LET i == MaxBy(matching_files)
       IN  \/ /\ i = 0
              /\ Exit(PanicExit, "no_local")
              /\ UNCHANGED latest_file
           \/ /\ i # 0
              /\ latest_file' = Some(matching_files[i][1])
              /\ pc' = "extract_local"
              /\ UNCHANGED <<exit_code, abort>>
    /\ UNCHANGED <<assets, chosen_asset, latest_commit, walk, matching_files,
                   latest_local_commit, compared, disk, spawned, tpc, task_fail,
                   download_requests, created_files, chunks>>

\* lines 207-211
ExtractLocal ==
    /\ pc = "extract_local"
    /\ LET v == ExtractVersion(latest_file[1])
       IN  \/ /\ v = IndexPanic
              /\ Exit(PanicExit, "malformed_local")
              /\ UNCHANGED latest_local_commit
           \/ /\ v # IndexPanic
              /\ latest_local_commit' = Some(v[2])
              /\ pc' = "reconcile"
              /\ UNCHANGED <<exit_code, abort>>
    /\ UNCHANGED <<assets, chosen_asset, latest_commit, walk, matching_files,
                   latest_file, compared, disk, spawned, tpc, task_fail,
                   download_requests, created_files, chunks>>

\* the comparison inverted: latest_commit != latest_local_commit
VersionsDiffer(r, l) == r # l

\* latest_commit == latest_local_commit
VersionsMatch(r, l) == r = l

\* lines 213-222
Reconcile ==
    /\ pc = "reconcile"
    /\ compared' = TRUE
    /\ \/ /\ VersionsMatch(latest_commit[1], latest_local_commit[1])
          /\ Exit(OkExit, "none")
       \/ /\ ~VersionsMatch(latest_commit[1], latest_local_commit[1])
          /\ pc' = "spawn"
          /\ UNCHANGED <<exit_code, abort>>
    /\ UNCHANGED <<assets, chosen_asset, latest_commit, walk, matching_files,
                   latest_file, latest_local_commit, disk, spawned, tpc,
                   task_fail, download_requests, created_files, chunks>>

\* line 224: tokio::spawn(async move { .. })
Spawn ==
    /\ pc = "spawn"
    /\ spawned' = spawned + 1
    /\ tpc' = "send"
    /\ pc' = "await"
    /\ UNCHANGED <<exit_code, abort, assets, chosen_asset, latest_commit, walk,
                   matching_files, latest_file, latest_local_commit, compared,
                   disk, task_fail, download_requests, created_files, chunks>>

\* lines 247-249: download_task.await?; Ok(())
Await ==
    /\ pc = "await"
    /\ JoinReady(tpc)
    /\ Exit(AwaitResult(tpc), IF AwaitResult(tpc) = OkExit THEN "none" ELSE "join")
    /\ UNCHANGED <<assets, chosen_asset, latest_commit, walk, matching_files,
                   latest_file, latest_local_commit, compared, disk, spawned,
                   tpc, task_fail, download_requests, created_files, chunks>>

-----------------------------------------------------------------------------
(* download_task; it runs on the runtime main is blocked on *)

\* file_name = asset.name.clone()
file_name == assets[chosen_asset]

TaskPanic(why) == tpc' = "panicked" /\ task_fail' = why

\* lines 225-232: client.get(download_url).send().await.unwrap()
TaskSend ==
    /\ pc = "await"
    /\ tpc = "send"
    /\ download_requests' = download_requests + 1
    /\ \/ tpc' = "create" /\ UNCHANGED task_fail
       \/ TaskPanic("request")
    /\ UNCHANGED <<pc, exit_code, abort, assets, chosen_asset, latest_commit, walk,
                   matching_files, latest_file, latest_local_commit, compared,
                   disk, spawned, created_files, chunks>>

\* lines 236-238: File::create(format!("{}/{}", download_dir, file_name)).unwrap()
TaskCreate ==
    /\ pc = "await"
    /\ tpc = "create"
    /\ \/ /\ disk' = [n \in DOMAIN disk \cup {file_name} |->
                        IF n = file_name THEN <<>> ELSE disk[n]]
          /\ created_files' = created_files \cup {file_name}
          /\ tpc' = "stream"
          /\ UNCHANGED task_fail
       \/ /\ TaskPanic("create")
          /\ UNCHANGED <<disk, created_files>>
    /\ UNCHANGED <<pc, exit_code, abort, assets, chosen_asset, latest_commit, walk,
                   matching_files, latest_file, latest_local_commit, compared,
                   spawned, download_requests, chunks>>

\* lines 240-243: one iteration of the stream loop
TaskChunk ==
    /\ pc = "await"
    /\ tpc = "stream"
    /\ Len(chunks) < MaxChunks
    /\ \/ \* item.unwrap() on a transport error
          /\ TaskPanic("chunk")
          /\ UNCHANGED <<disk, chunks>>
       \/ \E item \in ChunkValues :
             /\ chunks' = Append(chunks, item)
             /\ \/ /\ disk' = [disk EXCEPT ![file_name] = WriteAll(@, item)]
                   /\ UNCHANGED <<tpc, task_fail>>
                \/ \* write_all fails after k bytes of the chunk
                   \E k \in 0..(Len(item) - 1) :
                      /\ disk' = [disk EXCEPT
                                    ![file_name] = WriteAll(@, SubSeq(item, 1, k))]
                      /\ TaskPanic("write")
    /\ UNCHANGED <<pc, exit_code, abort, assets, chosen_asset, latest_commit, walk,
                   matching_files, latest_file, latest_local_commit, compared,
                   spawned, download_requests, created_files>>

\* line 240: stream.next() returns None; the task returns
TaskEnd ==
    /\ pc = "await"
    /\ tpc = "stream"
    /\ tpc' = "done"
    /\ UNCHANGED <<pc, exit_code, abort, assets, chosen_asset, latest_commit, walk,
                   matching_files, latest_file, latest_local_commit, compared,
                   disk, spawned, task_fail, download_requests, created_files,
                   chunks>>

-----------------------------------------------------------------------------

Next ==
    \/ FetchRelease
    \/ SelectAsset
    \/ ExtractRemote
    \/ ScanStep
    \/ ScanEnd
    \/ PickLatest
    \/ ExtractLocal
    \/ Reconcile
    \/ Spawn
    \/ Await
    \/ TaskSend
    \/ TaskCreate
    \/ TaskChunk
    \/ TaskEnd

Spec == Init /\ [][Next]_vars

-----------------------------------------------------------------------------
(* Version extraction on its own: main stands right before one of the two  *)
(* extractions, with a file name drawn from FragNames.  The remote name    *)
(* ends with ".AppImage" (line 158); the local one also starts with "yuzu" *)
(* (line 188).                                                             *)

InitExtract ==
    /\ exit_code = None
    /\ abort = "none"
    /\ chosen_asset = 1
    /\ compared = FALSE
    /\ spawned = 0
    /\ tpc = "idle"
    /\ task_fail = "none"
    /\ download_requests = 0
    /\ created_files = {}
    /\ chunks = <<>>
    /\ latest_local_commit = None
    /\ \/ /\ pc = "extract_remote"
          /\ \E f \in FragNames : assets = <<f>>
          /\ latest_commit = None
          /\ walk = <<>>
          /\ matching_files = <<>>
          /\ latest_file = None
          /\ disk = <<>>
       \/ /\ pc = "extract_local"
          /\ assets = <<NameX>>
          /\ latest_commit = Some(ExtractVersion(NameX)[2])
          /\ \E f \in {g \in FragNames : Matches(g)} :
                /\ walk = <<FileEntry(f, 1)>>
                /\ matching_files = <<<<f, 1>>>>
                /\ latest_file = Some(f)
                /\ disk = Seen(<<>>, f)

NextExtract ==
    \/ ExtractRemote
    \/ ExtractLocal

SpecExtract == InitExtract /\ [][NextExtract]_vars

-----------------------------------------------------------------------------
(* Properties *)

\* the indices of the assets whose name ends with ".AppImage"
MatchingAssets == {i \in 1..Len(assets) : EndsWith(assets[i], Suffix)}

\* main is past the selection of lines 155-165
Selected == pc \notin {"fetch", "select"} /\ abort \notin {"transport", "parse"}

\* the WalkDir loop of lines 179-192 has run to its end
ScanFinished ==
    \/ pc \in {"pick_latest", "extract_local", "reconcile", "spawn", "await"}
    \/ pc = "done" /\ (compared \/ abort \in {"no_local", "malformed_local"})

\* the suffix ".AppImage" taken off the end of s, nothing else removed
StripSuffix(s) ==
    IF EndsWith(s, Suffix) THEN SubSeq(s, 1, Len(s) - Len(Suffix)) ELSE s

\* the number of hyphen-delimited fields of a name: one more than its hyphens
NumFields(name) == 1 + Cardinality({i \in 1..Len(name) : name[i] = Hyphen})

\* bytes under the final artifact name <download_dir>/<asset name>
FinalBytes == IF file_name \in DOMAIN disk THEN Len(disk[file_name]) ELSE 0

RECURSIVE MatchesOf(_)
\* the (name, created) pairs of the matching entries of a traversal, in order
MatchesOf(w) ==
    IF w = <<>> THEN <<>>
    ELSE LET e == w[Len(w)]
             rest == MatchesOf(SubSeq(w, 1, Len(w) - 1))
         IN  IF ~e.err /\ Matches(e.name)
             THEN Append(rest, <<e.name, e.created>>)
             ELSE rest

\* the indices of matching_files that carry the maximum creation timestamp
MaximalFiles ==
    {i \in 1..Len(matching_files) :
        \A j \in 1..Len(matching_files) :
            matching_files[j][2] <= matching_files[i][2]}

SetMax(S) == CHOOSE x \in S : \A y \in S : y <= x

SetMin(S) == CHOOSE x \in S : \A y \in S : x <= y

----

\* C1 (as stated): for a run that reached the comparison with remote token r
\* and local token l and has ended, the body request was issued and a file
\* was created if and only if r and l differ; with r = l the run ended with
\* exit code 0, no request and no file.
C1_DownloadIffDifferent ==
    (compared /\ pc = "done") =>
        /\ (download_requests > 0 /\ created_files # {})
              <=> (latest_commit # latest_local_commit)
        /\ (latest_commit = latest_local_commit) =>
              /\ exit_code = Some(OkExit)
              /\ download_requests = 0
              /\ created_files = {}

\* C1 (amended): the body request is issued if and only if r and l differ;
\* a file is created only when they differ, and it is created whenever they
\* differ and neither the request nor the file creation fails; with r = l
\* the run ends at once with exit code 0, no request and no file.
C1_RequestIffDifferent ==
    compared =>
        /\ (download_requests > 0 \/ created_files # {} \/ spawned > 0)
              => latest_commit # latest_local_commit
        /\ pc = "done" =>
              ((download_requests = 1) <=> (latest_commit # latest_local_commit))
        /\ (pc = "done" /\ latest_commit # latest_local_commit
                /\ task_fail \notin {"request", "create"})
              => created_files = {file_name}
        /\ created_files # {} => task_fail \notin {"request", "create"}
        /\ (latest_commit = latest_local_commit) =>
              /\ pc = "done"
              /\ exit_code = Some(OkExit)
              /\ download_requests = 0
              /\ created_files = {}

C1_Witness ==
    /\ compared
    /\ pc = "done"
    /\ latest_commit # latest_local_commit
    /\ download_requests = 1
    /\ created_files = {file_name}

\* C2: a scan that ends with no matching entry routes to the download of
\* the chosen asset; the run does not end in a crash or an error.
C2_EmptyScanDownloads ==
    (ScanFinished /\ matching_files = <<>>)
    => /\ abort # "no_local"
       /\ exit_code # Some(PanicExit)
       /\ pc = "done" => spawned = 1

\* C3: after a chunk-read or file-write failure in the middle of the body,
\* zero bytes are left under the final artifact name.
C3_NoPartialFile ==
    task_fail \in {"chunk", "write"} => FinalBytes = 0

\* C4: once the selection has run on a list with a matching asset, the
\* chosen asset is the matching asset with the greatest index.
C4_LastMatchWins ==
    (Selected /\ MatchingAssets # {}) =>
        /\ chosen_asset \in MatchingAssets
        /\ \A i \in MatchingAssets : i <= chosen_asset

C4_Witness ==
    /\ Selected
    /\ Len(assets) >= 2
    /\ Cardinality(MatchingAssets) >= 2
    /\ \E i \in MatchingAssets : assets[i] # assets[chosen_asset]
    /\ chosen_asset = SetMax(MatchingAssets)

C6_TokenIsStrippedField ==
    /\ (latest_commit # None /\ NumFields(file_name) >= 4) =>
          latest_commit[1] = StripSuffix(Split(file_name, Hyphen)[4])
    /\ (latest_local_commit # None /\ NumFields(latest_file[1]) >= 4) =>
          latest_local_commit[1] = StripSuffix(Split(latest_file[1], Hyphen)[4])

\* C7: a remote or local file name with fewer than 4 hyphen-delimited
\* fields never yields a token; the run ends with a non-zero status before
\* anything is compared, and no download is started.
C7_ShortNameAborts ==
    /\ latest_commit # None => NumFields(file_name) >= 4
    /\ latest_local_commit # None => NumFields(latest_file[1]) >= 4
    /\ (Selected /\ chosen_asset # 0 /\ pc # "extract_remote"
            /\ NumFields(file_name) < 4) =>
          /\ pc = "done"
          /\ abort = "malformed_remote"
          /\ exit_code = Some(PanicExit)
          /\ exit_code # Some(OkExit)
          /\ ~compared
          /\ spawned = 0
          /\ download_requests = 0
          /\ created_files = {}
    /\ (latest_file # None /\ pc # "extract_local"
            /\ NumFields(latest_file[1]) < 4) =>
          /\ pc = "done"
          /\ abort = "malformed_local"
          /\ exit_code = Some(PanicExit)
          /\ exit_code # Some(OkExit)
          /\ ~compared
          /\ spawned = 0
          /\ download_requests = 0
          /\ created_files = {}

C7_Witness ==
    /\ pc = "done"
    /\ abort = "malformed_local"
    /\ latest_commit # None
    /\ NumFields(latest_file[1]) < 4

\* C8: when the download task has run to completion, the file under
\* <download_dir>/<asset name> holds exactly the concatenation of the
\* received chunks in receipt order, and it is the only file the run wrote.
C8_FileIsBody ==
    tpc = "done" =>
        /\ file_name \in DOMAIN disk
        /\ disk[file_name] = Flatten(chunks)
        /\ created_files = {file_name}
        /\ \A n \in DOMAIN disk \ {file_name} : disk[n] = OldContent

C8_Witness ==
    /\ tpc = "done"
    /\ pc = "done"
    /\ Len(chunks) = 2
    /\ chunks[1] # chunks[2]
    /\ file_name \in {e.name : e \in {walk[i] : i \in 1..Len(walk)}}

\* C9 (as stated): the scanner returns a matching entry with the maximum
\* creation timestamp, and of several with that timestamp the first one
\* encountered in traversal order.
C9_FirstMaxWins ==
    latest_file # None =>
        /\ matching_files = MatchesOf(walk)
        /\ latest_file[1] = matching_files[SetMin(MaximalFiles)][1]

\* C9 (amended): the scanner returns a matching entry with the maximum
\* creation timestamp, and of several with that timestamp the last one
\* encountered in traversal order.
C9_LastMaxWins ==
    /\ matching_files = MatchesOf(walk)
    /\ latest_file # None =>
          /\ MaximalFiles # {}
          /\ latest_file[1] = matching_files[SetMax(MaximalFiles)][1]

C9_Witness ==
    /\ latest_file # None
    /\ Cardinality(MaximalFiles) >= 2
    /\ matching_files[SetMin(MaximalFiles)][1] # matching_files[SetMax(MaximalFiles)][1]

====
